---------------------------- MODULE Spec2Model ----------------------------
(***************************************************************************)
(* A model of gpustat.py: one invocation of print_gpustat (device query,   *)
(* compute-process query, OS process listing, container resolution, join   *)
(* of processes onto devices, rendering), and of GPUStat construction and  *)
(* rendering on their own.                                                 *)
(*                                                                         *)
(* Python strings are sequences of one-character strings, so that          *)
(* substring tests, splits, concatenation, padding and int() are computed  *)
(* as the code computes them.  None is the one-element sequence None,      *)
(* which is no string because its element is longer than one character.    *)
(* The output of a command is held after the split the code applies to it: *)
(* a sequence of lines, each line a sequence of stripped fields.           *)
(***************************************************************************)
EXTENDS Integers, Sequences, FiniteSets, TLC

VARIABLES
    pc,               \* position in the program
    device_rows,      \* new_query: smi_output, split into lines and fields
    gpus,             \* GPUStatCollection.gpus, in insertion order
    smi_output,       \* running_processes: rows of the compute-process query
    process_entries,  \* running_processes: process_entries
    pid_keys,         \* running_processes: keys of pid_map, in insertion order
    pid_map,          \* running_processes: pid_map
    ps_map,           \* pid_map as it stood when step 2 ended (history)
    pid_output,       \* running_processes: lines of the ps listing
    lxc_version,      \* running_processes: lxc_version
    docker_version,   \* running_processes: docker_version
    docker_info_dict, \* running_processes: docker_info_dict
    cg_log,           \* the cgroup lookups made so far, one per pid (history)
    processes,        \* update_process_information: processes
    j,                \* update_process_information: position of the loop
    g,                \* update_process_information: g (0: not bound yet)
    with_colors,      \* print_formatted: not no_color
    out,              \* what was written to fp, one record per device line
    exc,              \* the exception being propagated, and where it was raised
    cmd,              \* outcome of each external command (history)
    exit_code,        \* exit status of the invocation (-1: still running)
    stderr            \* what the invocation wrote to stderr

vars == <<pc, device_rows, gpus, smi_output, process_entries, pid_keys, pid_map,
          ps_map, pid_output, lxc_version, docker_version, docker_info_dict,
          cg_log, processes, j, g, with_colors, out, exc, cmd, exit_code, stderr>>

(***************************************************************************)
(* Bounds of the model.                                                    *)
(***************************************************************************)
MaxGpus == 2
MaxRows == 2
MaxTemp == 110
MaxUtil == 100

(***************************************************************************)
(* Strings.                                                                *)
(***************************************************************************)
None == <<"<None>">>
EmptyStr == <<>>
NotSupported == <<"N","o","t"," ","S","u","p","p","o","r","t","e","d">>
Marker == <<"[">> \o NotSupported \o <<"]">>
UNKNOWN == <<"U","N","K","N","O","W","N">>
Digits == <<"0","1","2","3","4","5","6","7","8","9">>

\* sub in s
Contains(sub, s) ==
    \E i \in 0..(Len(s) - Len(sub)) : SubSeq(s, i + 1, i + Len(sub)) = sub

\* s.split(ch)
RECURSIVE Split(_, _)
Split(s, ch) ==
    IF \A i \in 1..Len(s) : s[i] # ch
    THEN <<s>>
    ELSE LET i == CHOOSE k \in 1..Len(s) :
                      s[k] = ch /\ \A m \in 1..(k - 1) : s[m] # ch
         IN  <<SubSeq(s, 1, i - 1)>> \o Split(SubSeq(s, i + 1, Len(s)), ch)

Last(s) == s[Len(s)]

DigitVal(c) == (CHOOSE i \in 1..10 : Digits[i] = c) - 1

\* whether int(s) succeeds on a string: decimal digits only
IsIntLiteral(s) ==
    /\ Len(s) > 0
    /\ \A i \in 1..Len(s) : \E d \in 1..10 : Digits[d] = s[i]

\* int(s) for a string of decimal digits
RECURSIVE IntOf(_)
IntOf(s) ==
    IF Len(s) = 0 THEN 0
    ELSE IntOf(SubSeq(s, 1, Len(s) - 1)) * 10 + DigitVal(s[Len(s)])

\* the decimal text of a natural number, as the query tools print it
RECURSIVE IntToStr(_)
IntToStr(n) ==
    IF n < 10 THEN <<Digits[n + 1]>>
    ELSE IntToStr(n \div 10) \o <<Digits[(n % 10) + 1]>>

\* format(s, ">w") of a string
RECURSIVE RJust(_, _)
RJust(s, w) == IF Len(s) >= w THEN s ELSE RJust(<<" ">> \o s, w)

\* dict(zip(columns, fields))
Zip(columns, fields) ==
    LET n == IF Len(columns) < Len(fields) THEN Len(columns) ELSE Len(fields)
    IN  [k \in {columns[i] : i \in 1..n} |->
            fields[CHOOSE i \in 1..n : columns[i] = k]]

\* truth value of a string or None
Truthy(v) == v # None /\ v # EmptyStr


(***************************************************************************)
(* Exceptions and the outcome of the invocation.                           *)
(***************************************************************************)
NoError == [type |-> "NoError", at |-> "nowhere"]
Raised(type, at) == [type |-> type, at |-> at]
StderrMessage == "Error on calling nvidia-smi\n"
Traceback == "Traceback (most recent call last)"

(***************************************************************************)
(* class ANSIColors.                                                       *)
(***************************************************************************)
RED == "0;31"
GREEN == "0;32"
BOLD_RED == "1;31"
BOLD_GREEN == "1;32"
NoColor == ""

(***************************************************************************)
(* class GPUStat.                                                          *)
(***************************************************************************)
gpu_query_columns ==
    <<"index", "uuid", "name", "temperature.gpu", "utilization.gpu",
      "memory.used", "memory.total">>

QuestionMarks == <<"?", "?">>

\* GPUStat.__init__: the entry with every field holding the marker set to None,
\* and an absent utilization set to "??"
GPUStatInit(entry) ==
    LET e1 == [k \in DOMAIN entry |->
                  IF Contains(NotSupported, entry[k]) THEN None ELSE entry[k]]
        e2 == IF e1["utilization.gpu"] = None
              THEN [e1 EXCEPT !["utilization.gpu"] = QuestionMarks]
              ELSE e1
    IN  [entry |-> e2, processes |-> <<>>]

\* GPUStat.uuid
UuidOf(gs) == gs.entry["uuid"]

\* GPUStat.add_process
AddProcess(gs, p) == [gs EXCEPT !.processes = Append(@, p)]

TempThreshold == 50
UtilThreshold == 30
GpunameWidth == 16

\* the exception int(v) raises, v a string or None
IntError(v) ==
    IF v = None THEN "TypeError"
    ELSE IF ~IsIntLiteral(v) THEN "ValueError"
    ELSE "NoError"

\* the exception format(v, spec) raises for a non-empty spec, v a string or None
FormatError(v) == IF v = None THEN "TypeError" ELSE "NoError"

\* print_to, color settings: the test that escalates CTemp
TempEscalatedStrict(t) == t > TempThreshold
TempEscalated(t) == t >= TempThreshold

\* print_to, color settings: the test that escalates CUtil
UtilEscalated(u) == u >= UtilThreshold

\* format(s, "w") of a string: left-aligned
RECURSIVE LJust(_, _)
LJust(s, w) == IF Len(s) >= w THEN s ELSE LJust(s \o <<" ">>, w)

\* print_to._repr
Repr(v, none_value) == IF v = None THEN none_value ELSE v

\* print_to.process_repr with show_cmd, show_user and show_pid at their defaults
ProcessRepr(p) ==
    [user |-> Repr(p["user"], <<"-", "-">>),
     used_memory |-> Repr(p["used_memory"], <<"?">>)]

FirstError(errs) ==
    IF \A i \in 1..Len(errs) : errs[i] = "NoError" THEN "NoError"
    ELSE errs[CHOOSE i \in 1..Len(errs) :
                  errs[i] # "NoError" /\ \A k \in 1..(i - 1) : errs[k] = "NoError"]

\* GPUStat.print_to: the exception it raises, or the line it writes
PrintTo(gs, colors_on, gpuname_width) ==
    LET e == gs.entry
        temp == e["temperature.gpu"]
        util == e["utilization.gpu"]
        err == FirstError(<<IntError(temp), IntError(util),
                            FormatError(e["name"]), FormatError(temp),
                            FormatError(util), FormatError(e["memory.used"]),
                            FormatError(e["memory.total"])>>)
        CTemp == IF TempEscalated(IntOf(temp)) THEN BOLD_RED ELSE RED
        CUtil == IF UtilEscalated(IntOf(util)) THEN BOLD_GREEN ELSE GREEN
    IN  IF err # "NoError"
        THEN [err |-> err]
        ELSE [err |-> "NoError",
              line |-> [index |-> e["index"],
                        name |-> LJust(e["name"], gpuname_width),
                        CTemp |-> IF colors_on THEN CTemp ELSE NoColor,
                        temp |-> RJust(temp, 3),
                        CUtil |-> IF colors_on THEN CUtil ELSE NoColor,
                        util |-> RJust(util, 3),
                        mem_used |-> RJust(e["memory.used"], 5),
                        mem_total |-> RJust(e["memory.total"], 5),
                        procs |-> [i \in 1..Len(gs.processes) |->
                                      ProcessRepr(gs.processes[i])]]]

\* print_formatted: the effective width of the name column
NameWidth(gs_seq) ==
    LET lens == {GpunameWidth} \cup
                {Len(gs_seq[i].entry["name"]) : i \in 1..Len(gs_seq)}
    IN  CHOOSE w \in lens : \A v \in lens : v <= w

(***************************************************************************)
(* GPUStatCollection.running_processes.                                    *)
(***************************************************************************)
process_query_columns == <<"gpu_uuid", "pid", "used_memory">>

Range(s) == {s[i] : i \in 1..Len(s)}

\* step 1: one process_entry per line of the compute-process query
ParseEntries(rows) == [i \in 1..Len(rows) |-> Zip(process_query_columns, rows[i])]

HasMarkerPid(e) == Contains(NotSupported, e["pid"])

\* the keys of pid_map, in insertion order: int(e["pid"]) of the entries whose
\* pid does not hold the marker
RECURSIVE PidKeys(_, _)
PidKeys(entries, n) ==
    IF n = 0 THEN <<>>
    ELSE LET prev == PidKeys(entries, n - 1)
             e == entries[n]
         IN  IF HasMarkerPid(e) \/ IntOf(e["pid"]) \in Range(prev)
             THEN prev
             ELSE Append(prev, IntOf(e["pid"]))

DefaultIdentity == [user |-> UNKNOWN, comm |-> EmptyStr]

\* pid_map as the dict comprehension builds it
InitialPidMap(keys) == [k \in Range(keys) |-> DefaultIdentity]

\* step 2: whether a line of the ps listing is skipped (empty, or holding "PID")
PsLineSkipped(line) ==
    line = <<>> \/ \E i \in 1..Len(line) : Contains(<<"P", "I", "D">>, line[i])

\* step 2: the ps listing merged into pid_map; err when a line does not unpack
\* into pid, user, comm
RECURSIVE PsMerge(_, _, _, _)
PsMerge(keys, map, lines, n) ==
    IF n = 0 THEN [err |-> "NoError", keys |-> keys, map |-> map]
    ELSE LET prev == PsMerge(keys, map, lines, n - 1)
             line == lines[n]
         IN  IF prev.err # "NoError" \/ PsLineSkipped(line) THEN prev
             ELSE IF Len(line) # 3 THEN [prev EXCEPT !.err = "ValueError"]
             ELSE LET pid == IntOf(line[1])
                      ident == [user |-> line[2], comm |-> line[3]]
                  IN  [err |-> "NoError",
                       keys |-> IF pid \in Range(prev.keys) THEN prev.keys
                                ELSE Append(prev.keys, pid),
                       map |-> (pid :> ident) @@ prev.map]

\* step 2.1: docker_info_dict from the items of the docker ps listing; err
\* when an item does not unpack into container_id, container_name, command
RECURSIVE DockerInfoDict(_, _)
DockerInfoDict(items, n) ==
    IF n = 0 THEN [err |-> "NoError", dict |-> <<>>]
    ELSE LET prev == DockerInfoDict(items, n - 1)
             item == items[n]
         IN  IF prev.err # "NoError" THEN prev
             ELSE IF Len(item) # 3 THEN [prev EXCEPT !.err = "ValueError"]
             ELSE [err |-> "NoError",
                   dict |-> (item[1] :> [name |-> item[2], command |-> item[3]])
                            @@ prev.dict]

LxcWord == <<"l", "x", "c">>
DockerWord == <<"d", "o", "c", "k", "e", "r">>

\* cgroup.split(",")[0].split("/")[-1]
ContainerSegment(cgroup) == Last(Split(Split(cgroup, ",")[1], "/"))

\* step 2.1, after the lookup unpacked: the identity of the pid
ResolveIdentityUnguarded(ident, cgroup, lxc, docker, dict) ==
    IF Contains(LxcWord, cgroup)
    THEN [ident EXCEPT !.user = @ \o <<"/">> \o ContainerSegment(cgroup)]
    ELSE IF Contains(DockerWord, cgroup)
    THEN IF ContainerSegment(cgroup) \in DOMAIN dict
         THEN [ident EXCEPT !.user = dict[ContainerSegment(cgroup)].name]
         ELSE [ident EXCEPT !.user = UNKNOWN]
    ELSE ident
ResolveIdentity(ident, cgroup, lxc, docker, dict) ==
    IF Truthy(lxc) /\ Contains(LxcWord, cgroup)
    THEN [ident EXCEPT !.user = @ \o <<"/">> \o ContainerSegment(cgroup)]
    ELSE IF Truthy(docker) /\ Contains(DockerWord, cgroup)
    THEN IF ContainerSegment(cgroup) \in DOMAIN dict
         THEN [ident EXCEPT !.user = dict[ContainerSegment(cgroup)].name]
         ELSE [ident EXCEPT !.user = UNKNOWN]
    ELSE ident

\* a cgroup lookup: the command failed, or the fields of its output
LookupFailed(lookup) == lookup.failed \/ Len(lookup.info) # 3

\* step 2.1, the except clause: what a failed lookup leaves of the pid's identity
IdentityAfterFailureReset(ident) == DefaultIdentity
IdentityAfterFailure(ident) == ident

\* step 2.1, one iteration of the loop over pid_map
CgroupIteration(map, pid, lookup, lxc, docker, dict) ==
    IF LookupFailed(lookup)
    THEN [map EXCEPT ![pid] = IdentityAfterFailure(@)]
    ELSE [map EXCEPT ![pid] = ResolveIdentity(@, lookup.info[3], lxc, docker, dict)]

NoneDict == [none |-> TRUE]

\* step 3, one process_entry: what the loop leaves of it in process_entries
Step3EntryDropMarker(e, map) ==
    IF HasMarkerPid(e) THEN <<>>
    ELSE <<map[IntOf(e["pid"])] @@ e>>
Step3Entry(e, map) ==
    IF HasMarkerPid(e)
    THEN <<[user |-> None, comm |-> None] @@
           [e EXCEPT !["pid"] = None, !["used_memory"] = None]>>
    ELSE IF map[IntOf(e["pid"])] = NoneDict
    THEN <<>>
    ELSE <<map[IntOf(e["pid"])] @@ e>>

\* step 3: process_entries when the loop is over
RECURSIVE Step3(_, _, _)
Step3(entries, map, n) ==
    IF n = 0 THEN <<>>
    ELSE Step3(entries, map, n - 1) \o Step3Entry(entries[n], map)

(***************************************************************************)
(* What the external commands may answer.                                  *)
(***************************************************************************)
Letters == <<"a", "b", "c", "d">>
GpuUuid(i) == <<"G", "P", "U", "-", Letters[i]>>
UnknownUuid == <<"G", "P", "U", "-", "x">>

\* one line of the device query: device i with the given temperature and
\* utilization fields
DeviceLine(i, temp, util) ==
    <<IntToStr(i - 1), GpuUuid(i), <<"K", "8", "0">>, temp, util,
      <<"1", "0", "2", "4">>, <<"1", "2", "0", "0", "0">>>>

\* temperature and utilization of a device: both numeric, or both unsupported
Telemetry == {<<<<"6", "5">>, <<"4", "2">>>>, <<Marker, Marker>>}

DeviceOutputs ==
    UNION {{[i \in 1..n |-> DeviceLine(i, f[i][1], f[i][2])] :
               f \in [1..n -> Telemetry]} : n \in 1..MaxGpus}

\* the rows of the compute-process query: a process on the first device, one
\* on the second, one on a device the device query did not list, and a row
\* whose pid and memory are not supported
AppRows ==
    {<<GpuUuid(1), <<"7">>, <<"2", "5", "6">>>>,
     <<GpuUuid(2), <<"1", "2">>, <<"5", "1", "2">>>>,
     <<UnknownUuid, <<"1", "2">>, <<"5", "1", "2">>>>,
     <<GpuUuid(1), Marker, Marker>>}

AppOutputs == UNION {[1..n -> AppRows] : n \in 0..MaxRows}

PsHeader == <<<<"P", "I", "D">>, <<"U", "S", "E", "R">>,
              <<"C", "O", "M", "M", "A", "N", "D">>>>

\* the line of the ps listing for a pid; "split" is a command name holding a
\* space, which line.split() breaks in two
PsLine(pid, how) ==
    LET user == IF pid = 7 THEN <<"a", "l">> ELSE <<"b", "o">>
    IN  IF how = "ok" THEN <<<<IntToStr(pid), user, <<"p", "y">>>>>>
        ELSE IF how = "split" THEN <<<<IntToStr(pid), user, <<"W">>, <<"C">>>>>>
        ELSE <<>>

RECURSIVE PsLines(_, _, _)
PsLines(keys, f, n) ==
    IF n = 0 THEN <<PsHeader>>
    ELSE PsLines(keys, f, n - 1) \o PsLine(keys[n], f[keys[n]])

\* the listings ps may print for the pids asked for: for each pid a line, a
\* line that splits into four fields, or no line
PsOutputs(keys) ==
    {PsLines(keys, f, Len(keys)) : f \in [Range(keys) -> {"ok", "split", "absent"}]}

\* a version probe: failed (None), printed nothing, printed a version
VersionOutputs == {None, EmptyStr, <<"3">>}

ContainerId == <<"c", "1">>
ContainerName == <<"w", "e", "b">>

\* docker ps: no container running (one empty item), or one container
DockerPsOutputs ==
    {<<<<EmptyStr>>>>, <<<<ContainerId, ContainerName, <<"s", "h">>>>>>}

LxcCgroup == <<"1", ":", "/", "l", "x", "c", "/", "b", "x", ",", "2">>
DockerCgroup == <<"1", ":", "/", "d", "o", "c", "k", "e", "r", "/", "c", "1", ",", "2">>
OtherDockerCgroup == <<"1", ":", "/", "d", "o", "c", "k", "e", "r", "/", "c", "9">>
NestedCgroup == <<"1", ":", "/", "d", "o", "c", "k", "e", "r", "/", "l", "x", "c", "7">>
HostCgroup == <<"1", ":", "/">>
Cgroups == {LxcCgroup, DockerCgroup, OtherDockerCgroup, NestedCgroup, HostCgroup}

\* a cgroup lookup: the command fails, prints two fields, or prints pid, user
\* and a cgroup
CgroupLookups ==
    {[failed |-> TRUE, info |-> <<>>],
     [failed |-> FALSE, info |-> <<<<"7">>, <<"a", "l">>>>]}
    \cup {[failed |-> FALSE, info |-> <<<<"7">>, <<"a", "l">>, c>>] : c \in Cgroups}

RequiredCommands == {"device_query", "compute_apps", "ps", "docker_ps"}

(***************************************************************************)
(* The invocation: print_gpustat.                                          *)
(***************************************************************************)
rpLocals == <<smi_output, process_entries, pid_keys, pid_map, ps_map, pid_output,
              lxc_version, docker_version, docker_info_dict, cg_log>>
joinLocals == <<processes, j, g>>
printState == <<with_colors, out>>
endState == <<exit_code, stderr>>

Init ==
    /\ pc = "device_query"
    /\ device_rows = <<>>
    /\ gpus = <<>>
    /\ smi_output = <<>>
    /\ process_entries = <<>>
    /\ pid_keys = <<>>
    /\ pid_map = <<>>
    /\ ps_map = <<>>
    /\ pid_output = <<>>
    /\ lxc_version = None
    /\ docker_version = None
    /\ docker_info_dict = <<>>
    /\ cg_log = <<>>
    /\ processes = <<>>
    /\ j = 1
    /\ g = 0
    /\ with_colors = TRUE
    /\ out = <<>>
    /\ exc = NoError
    /\ cmd = [c \in RequiredCommands |-> "notrun"]
    /\ exit_code = -1
    /\ stderr = ""

\* an exception leaves the statement that raised it
Raise(type, at) ==
    /\ pc' = "raised"
    /\ exc' = Raised(type, at)

\* exec_command without ignore_exceptions, the command failing
ExecFails(command) ==
    /\ cmd' = [cmd EXCEPT ![command] = "failed"]
    /\ Raise("CalledProcessError", command)

\* new_query: the device query
DeviceQuery ==
    /\ pc = "device_query"
    /\ \/ /\ ExecFails("device_query")
          /\ UNCHANGED device_rows
       \/ /\ \E rows \in DeviceOutputs : device_rows' = rows
          /\ cmd' = [cmd EXCEPT !["device_query"] = "ok"]
          /\ pc' = "new_collection"
          /\ UNCHANGED exc
    /\ UNCHANGED <<gpus, rpLocals, joinLocals, printState, endState>>

\* GPUStatCollection.__init__: the OrderedDict keyed by uuid
RECURSIVE OrderedByUuid(_, _)
OrderedByUuid(gpu_list, n) ==
    IF n = 0 THEN <<>>
    ELSE LET prev == OrderedByUuid(gpu_list, n - 1)
             x == gpu_list[n]
         IN  IF \E i \in 1..Len(prev) : UuidOf(prev[i]) = UuidOf(x)
             THEN [i \in 1..Len(prev) |->
                      IF UuidOf(prev[i]) = UuidOf(x) THEN x ELSE prev[i]]
             ELSE Append(prev, x)

\* new_query: one GPUStat per line, and the collection of them
NewCollection ==
    /\ pc = "new_collection"
    /\ gpus' = OrderedByUuid(
                   [i \in 1..Len(device_rows) |->
                       GPUStatInit(Zip(gpu_query_columns, device_rows[i]))],
                   Len(device_rows))
    /\ pc' = "compute_apps"
    /\ UNCHANGED <<device_rows, rpLocals, joinLocals, printState, exc, cmd, endState>>

\* running_processes, step 1: the compute-process query, process_entries, pid_map
ComputeAppsQuery ==
    /\ pc = "compute_apps"
    /\ \/ /\ ExecFails("compute_apps")
          /\ UNCHANGED <<smi_output, process_entries, pid_keys, pid_map, ps_map>>
       \/ /\ \E rows \in AppOutputs :
                LET entries == ParseEntries(rows)
                    keys == PidKeys(entries, Len(entries))
                IN  /\ smi_output' = rows
                    /\ process_entries' = entries
                    /\ pid_keys' = keys
                    /\ pid_map' = InitialPidMap(keys)
                    /\ ps_map' = InitialPidMap(keys)
                    /\ pc' = IF keys # <<>> THEN "ps" ELSE "lxc_probe"
          /\ cmd' = [cmd EXCEPT !["compute_apps"] = "ok"]
          /\ UNCHANGED exc
    /\ UNCHANGED <<device_rows, gpus, pid_output, lxc_version, docker_version,
                   docker_info_dict, cg_log, joinLocals, printState, endState>>

\* running_processes, step 2: the ps listing merged into pid_map
PsQuery ==
    /\ pc = "ps"
    /\ \/ /\ ExecFails("ps")
          /\ UNCHANGED <<pid_output, pid_keys, pid_map, ps_map>>
       \/ /\ cmd' = [cmd EXCEPT !["ps"] = "ok"]
          /\ \E lines \in PsOutputs(pid_keys) :
                LET merged == PsMerge(pid_keys, pid_map, lines, Len(lines))
                IN  /\ pid_output' = lines
                    /\ IF merged.err # "NoError"
                       THEN /\ Raise(merged.err, "ps")
                            /\ UNCHANGED <<pid_keys, pid_map, ps_map>>
                       ELSE /\ pid_keys' = merged.keys
                            /\ pid_map' = merged.map
                            /\ ps_map' = merged.map
                            /\ pc' = "lxc_probe"
                            /\ UNCHANGED exc
    /\ UNCHANGED <<device_rows, gpus, smi_output, process_entries, lxc_version,
                   docker_version, docker_info_dict, cg_log, joinLocals,
                   printState, endState>>

\* running_processes, step 2.1: exec_command("lxc-info --version", True)
LxcProbe ==
    /\ pc = "lxc_probe"
    /\ \E v \in VersionOutputs : lxc_version' = v
    /\ pc' = "docker_probe"
    /\ UNCHANGED <<device_rows, gpus, smi_output, process_entries, pid_keys, pid_map,
                   ps_map, pid_output, docker_version, docker_info_dict, cg_log,
                   joinLocals, printState, exc, cmd, endState>>

\* where step 2.1 goes once the docker table is built or skipped: into the
\* loop over pid_map when a runtime was detected and pid_map is not empty
AfterDockerTable(lxc, docker, keys) ==
    IF (Truthy(lxc) \/ Truthy(docker)) /\ keys # <<>> THEN "cgroup" ELSE "step3"

\* running_processes, step 2.1: exec_command("docker --version", True)
DockerProbe ==
    /\ pc = "docker_probe"
    /\ \E v \in VersionOutputs :
          /\ docker_version' = v
          /\ pc' = IF Truthy(v) THEN "docker_ps"
                   ELSE AfterDockerTable(lxc_version, v, pid_keys)
    /\ UNCHANGED <<device_rows, gpus, smi_output, process_entries, pid_keys, pid_map,
                   ps_map, pid_output, lxc_version, docker_info_dict, cg_log,
                   joinLocals, printState, exc, cmd, endState>>

\* running_processes, step 2.1: the docker ps listing and docker_info_dict
DockerPs ==
    /\ pc = "docker_ps"
    /\ \/ /\ ExecFails("docker_ps")
          /\ UNCHANGED docker_info_dict
       \/ /\ cmd' = [cmd EXCEPT !["docker_ps"] = "ok"]
          /\ \E items \in DockerPsOutputs :
                LET table == DockerInfoDict(items, Len(items))
                IN  IF table.err # "NoError"
                    THEN /\ Raise(table.err, "docker_ps")
                         /\ UNCHANGED docker_info_dict
                    ELSE /\ docker_info_dict' = table.dict
                         /\ pc' = AfterDockerTable(lxc_version, docker_version,
                                                   pid_keys)
                         /\ UNCHANGED exc
    /\ UNCHANGED <<device_rows, gpus, smi_output, process_entries, pid_keys, pid_map,
                   ps_map, pid_output, lxc_version, docker_version, cg_log,
                   joinLocals, printState, endState>>

\* running_processes, step 2.1: the loop over pid_map, one pid
CgroupLookup ==
    /\ pc = "cgroup"
    /\ \E lookup \in CgroupLookups :
          /\ cg_log' = Append(cg_log, lookup)
          /\ pid_map' = CgroupIteration(pid_map, pid_keys[Len(cg_log) + 1], lookup,
                                        lxc_version, docker_version,
                                        docker_info_dict)
    /\ pc' = IF Len(cg_log) + 1 = Len(pid_keys) THEN "step3" ELSE "cgroup"
    /\ UNCHANGED <<device_rows, gpus, smi_output, process_entries, pid_keys, ps_map,
                   pid_output, lxc_version, docker_version, docker_info_dict,
                   joinLocals, printState, exc, cmd, endState>>

\* running_processes, step 3: the loop over process_entries
AddProcessInformation ==
    /\ pc = "step3"
    /\ process_entries' = Step3(process_entries, pid_map, Len(process_entries))
    /\ pc' = "return_processes"
    /\ UNCHANGED <<device_rows, gpus, smi_output, pid_keys, pid_map, ps_map,
                   pid_output, lxc_version, docker_version, docker_info_dict,
                   cg_log, joinLocals, printState, exc, cmd, endState>>

\* running_processes returns to update_process_information
ReturnProcesses ==
    /\ pc = "return_processes"
    /\ processes' = process_entries
    /\ j' = 1
    /\ g' = 0
    /\ smi_output' = <<>>
    /\ process_entries' = <<>>
    /\ pid_keys' = <<>>
    /\ pid_map' = <<>>
    /\ ps_map' = <<>>
    /\ pid_output' = <<>>
    /\ lxc_version' = None
    /\ docker_version' = None
    /\ docker_info_dict' = <<>>
    /\ cg_log' = <<>>
    /\ pc' = IF process_entries = <<>> THEN "print_formatted" ELSE "join"
    /\ UNCHANGED <<device_rows, gpus, printState, exc, cmd, endState>>

\* update_process_information: self.gpus[p["gpu_uuid"]] inside the try, whose
\* except clause passes: the device with that uuid, or g as it was (0: unbound)
LookupDevice(devices, uuid, bound) ==
    IF \E i \in 1..Len(devices) : UuidOf(devices[i]) = uuid
    THEN CHOOSE i \in 1..Len(devices) : UuidOf(devices[i]) = uuid
    ELSE bound

\* update_process_information: the loop over processes, one process
JoinProcess ==
    /\ pc = "join"
    /\ LET p == processes[j]
           target == LookupDevice(gpus, p["gpu_uuid"], g)
       IN  IF target = 0
           THEN /\ Raise("UnboundLocalError", "join")
                /\ UNCHANGED <<gpus, j, g>>
           ELSE /\ gpus' = [gpus EXCEPT ![target] = AddProcess(@, p)]
                /\ g' = target
                /\ j' = j + 1
                /\ pc' = IF j = Len(processes) THEN "print_formatted" ELSE "join"
                /\ UNCHANGED exc
    /\ UNCHANGED <<device_rows, rpLocals, processes, printState, cmd, endState>>

\* print_gpustat calls print_formatted with the arguments of the command line
PrintFormatted ==
    /\ pc = "print_formatted"
    /\ \E no_color \in BOOLEAN : with_colors' = ~no_color
    /\ pc' = "print_to"
    /\ UNCHANGED <<device_rows, gpus, rpLocals, joinLocals, out, exc, cmd, endState>>

\* print_formatted: the loop over the devices, one device
PrintDevice ==
    /\ pc = "print_to"
    /\ Len(out) < Len(gpus)
    /\ LET r == PrintTo(gpus[Len(out) + 1], with_colors, NameWidth(gpus))
       IN  IF r.err # "NoError"
           THEN /\ Raise(r.err, "print_to")
                /\ UNCHANGED out
           ELSE /\ out' = Append(out, r.line)
                /\ UNCHANGED <<pc, exc>>
    /\ UNCHANGED <<device_rows, gpus, rpLocals, joinLocals, with_colors, cmd,
                   endState>>

\* print_formatted returns and the invocation ends
Finish ==
    /\ pc = "print_to"
    /\ Len(out) = Len(gpus)
    /\ pc' = "exit"
    /\ exit_code' = 0
    /\ UNCHANGED <<device_rows, gpus, rpLocals, joinLocals, printState, exc, cmd,
                   stderr>>

\* print_gpustat: the statements the try covers
InTry(at) == at # "print_to"

\* print_gpustat: the exceptions its except clause catches
CatchesAny(type) == TRUE
Catches(type) == type = "CalledProcessError"

\* print_gpustat: an exception reaches the try statement, or leaves the program
Terminate ==
    /\ pc = "raised"
    /\ pc' = "exit"
    /\ exit_code' = 1
    /\ stderr' = IF InTry(exc.at) /\ Catches(exc.type)
                 THEN StderrMessage ELSE Traceback
    /\ UNCHANGED <<device_rows, gpus, rpLocals, joinLocals, printState, exc, cmd>>

Next ==
    \/ DeviceQuery
    \/ NewCollection
    \/ ComputeAppsQuery
    \/ PsQuery
    \/ LxcProbe
    \/ DockerProbe
    \/ DockerPs
    \/ CgroupLookup
    \/ AddProcessInformation
    \/ ReturnProcesses
    \/ JoinProcess
    \/ PrintFormatted
    \/ PrintDevice
    \/ Finish
    \/ Terminate

Spec == Init /\ [][Next]_vars

(***************************************************************************)
(* A GPUStat built from one line of the device query and rendered on its   *)
(* own, as __repr__ and the callers of print_to do.                        *)
(***************************************************************************)
TempFields == {IntToStr(t) : t \in 0..MaxTemp} \cup {Marker}
UtilFields == {IntToStr(u) : u \in 0..MaxUtil} \cup {Marker}

InitRender ==
    /\ pc = "construct"
    /\ \E temp \in TempFields, util \in UtilFields :
          device_rows = <<DeviceLine(1, temp, util)>>
    /\ with_colors \in BOOLEAN
    /\ gpus = <<>>
    /\ smi_output = <<>>
    /\ process_entries = <<>>
    /\ pid_keys = <<>>
    /\ pid_map = <<>>
    /\ ps_map = <<>>
    /\ pid_output = <<>>
    /\ lxc_version = None
    /\ docker_version = None
    /\ docker_info_dict = <<>>
    /\ cg_log = <<>>
    /\ processes = <<>>
    /\ j = 1
    /\ g = 0
    /\ out = <<>>
    /\ exc = NoError
    /\ cmd = [c \in RequiredCommands |-> "notrun"]
    /\ exit_code = -1
    /\ stderr = ""

\* GPUStat(in_dict)
Construct ==
    /\ pc = "construct"
    /\ gpus' = <<GPUStatInit(Zip(gpu_query_columns, device_rows[1]))>>
    /\ pc' = "render"
    /\ UNCHANGED <<device_rows, rpLocals, joinLocals, printState, exc, cmd, endState>>

\* g.print_to(fp, with_colors)
Render ==
    /\ pc = "render"
    /\ LET r == PrintTo(gpus[1], with_colors, GpunameWidth)
       IN  IF r.err # "NoError"
           THEN /\ exc' = Raised(r.err, "print_to")
                /\ UNCHANGED out
           ELSE /\ out' = <<r.line>>
                /\ UNCHANGED exc
    /\ pc' = "rendered"
    /\ UNCHANGED <<device_rows, gpus, rpLocals, joinLocals, with_colors, cmd,
                   endState>>

NextRender == Construct \/ Render

SpecRender == InitRender /\ [][NextRender]_vars

(***************************************************************************)
(* Properties.                                                             *)
(***************************************************************************)
KnownUuids == {UuidOf(gpus[i]) : i \in 1..Len(gpus)}
Attached(i) == Range(gpus[i].processes)
SnapshotBuilt == pc = "print_formatted"
InRunningProcesses == pc \in {"cgroup", "step3", "return_processes"}

\* C1: once the snapshot is built, every process record in a device's process
\* list carries that device's uuid, and no process record is in the process
\* list of two devices.
C1_AttachedToOwnDevice ==
    SnapshotBuilt =>
        /\ \A i \in 1..Len(gpus) : \A p \in Attached(i) :
              p["gpu_uuid"] = UuidOf(gpus[i])
        /\ \A i, k \in 1..Len(gpus) : i # k => Attached(i) \cap Attached(k) = {}

\* C2: a process entry whose gpu_uuid matches no device is dropped silently:
\* no error leaves the join, the entry is in no device's process list, and the
\* entries of known devices are in their device's process list.
C2_UnknownDeviceDropped ==
    /\ exc.at # "join"
    /\ SnapshotBuilt =>
          \A n \in 1..Len(processes) :
              LET p == processes[n]
              IN  IF p["gpu_uuid"] \in KnownUuids
                  THEN \E i \in 1..Len(gpus) :
                          UuidOf(gpus[i]) = p["gpu_uuid"] /\ p \in Attached(i)
                  ELSE \A i \in 1..Len(gpus) : p \notin Attached(i)

\* whether the ps listing holds a line for the pid field of a row
PsListed(pidfield) == \E n \in 2..Len(pid_output) : pid_output[n][1] = pidfield

\* C3: when the ps listing succeeds and holds no line for a pid of the
\* compute-process query, running_processes returns no entry with that pid.
C3_UnlistedPidRemoved ==
    (pc = "return_processes" /\ cmd["ps"] = "ok") =>
        \A n \in 1..Len(smi_output) :
            (~Contains(NotSupported, smi_output[n][2]) /\ ~PsListed(smi_output[n][2]))
                => \A k \in 1..Len(process_entries) :
                      process_entries[k]["pid"] # smi_output[n][2]

RawTemp == device_rows[1][4]
RawUtil == device_rows[1][5]

\* C4: a device whose temperature or utilization field held the marker is
\* rendered without error, its utilization shown as "??" and its temperature
\* as "???".
C4_UnsupportedRendersPlaceholder ==
    (pc = "rendered" /\ (RawTemp = Marker \/ RawUtil = Marker)) =>
        /\ exc = NoError
        /\ out # <<>>
        /\ RawUtil = Marker => out[1].util = RJust(<<"?", "?">>, 3)
        /\ RawTemp = Marker => out[1].temp = <<"?", "?", "?">>

Ended == pc = "exit"
EndedWithMessage == Ended /\ exit_code = 1 /\ stderr = StderrMessage

Detected == Truthy(lxc_version) \/ Truthy(docker_version)

\* C6: a pid whose cgroup lookup failed, by a command error or by an output
\* that is not three fields, keeps the user and comm it had before the loop;
\* every pid is still looked up, and the pids whose lookup succeeded are
\* resolved from their own lookup alone.
C6_LookupFailureIsolated ==
    InRunningProcesses =>
        /\ \A k \in 1..Len(cg_log) :
              LET pid == pid_keys[k]
              IN  IF cg_log[k].failed \/ Len(cg_log[k].info) # 3
                  THEN pid_map[pid] = ps_map[pid]
                  ELSE pid_map[pid] =
                          ResolveIdentity(ps_map[pid], cg_log[k].info[3], lxc_version,
                                          docker_version, docker_info_dict)
        /\ \A k \in (Len(cg_log) + 1)..Len(pid_keys) :
              pid_map[pid_keys[k]] = ps_map[pid_keys[k]]
        /\ (pc # "cgroup" /\ Detected) => Len(cg_log) = Len(pid_keys)

C6_Witness ==
    /\ pc = "step3"
    /\ Len(cg_log) = 2
    /\ cg_log[1].failed
    /\ ps_map[pid_keys[1]].user = <<"a", "l">>
    /\ pid_map[pid_keys[1]] = ps_map[pid_keys[1]]
    /\ cg_log[2] = [failed |-> FALSE, info |-> <<<<"7">>, <<"a", "l">>, LxcCgroup>>]
    /\ Truthy(lxc_version)
    /\ pid_map[pid_keys[2]].user = <<"b", "o", "/", "b", "x">>

\* C7: whatever the version probes and the docker ps listing answer,
\* running_processes raises nothing there, and the docker ps listing is run
\* only when pid_map is not empty.
C7_ContainerStageNeverAborts ==
    /\ exc.at # "docker_ps"
    /\ (InRunningProcesses /\ cmd["docker_ps"] # "notrun") => pid_keys # <<>>

\* C8: a row whose pid holds the marker stays in the sequence that
\* running_processes returns, at its position and with its gpu_uuid, its user,
\* comm, pid and used_memory all None; no entry is removed.
C8_MarkerRowKept ==
    pc = "return_processes" =>
        /\ Len(process_entries) = Len(smi_output)
        /\ \A n \in 1..Len(smi_output) :
              Contains(NotSupported, smi_output[n][2]) =>
                  /\ process_entries[n]["gpu_uuid"] = smi_output[n][1]
                  /\ process_entries[n]["user"] = None
                  /\ process_entries[n]["comm"] = None
                  /\ process_entries[n]["pid"] = None
                  /\ process_entries[n]["used_memory"] = None

C8_Witness ==
    /\ pc = "return_processes"
    /\ smi_output = <<<<GpuUuid(1), Marker, Marker>>>>
    /\ Len(process_entries) = 1
    /\ process_entries[1]["pid"] = None
    /\ process_entries[1]["user"] = None

\* the container name or id each cgroup of the model names
NamedIn(cgroup) ==
    IF cgroup = LxcCgroup THEN <<"b", "x">>
    ELSE IF cgroup = DockerCgroup THEN <<"c", "1">>
    ELSE IF cgroup = OtherDockerCgroup THEN <<"c", "9">>
    ELSE IF cgroup = NestedCgroup THEN <<"l", "x", "c", "7">>
    ELSE EmptyStr

NamesLxc(cgroup) == cgroup \in {LxcCgroup, NestedCgroup}
NamesDocker(cgroup) == cgroup \in {DockerCgroup, OtherDockerCgroup, NestedCgroup}

\* the user of a pid that a docker cgroup gives it
DockerUser(cgroup) ==
    IF NamedIn(cgroup) \in DOMAIN docker_info_dict
    THEN docker_info_dict[NamedIn(cgroup)].name
    ELSE UNKNOWN

\* the pids looked up so far whose lookup gave three fields
Resolved == {k \in 1..Len(cg_log) : ~cg_log[k].failed /\ Len(cg_log[k].info) = 3}

\* C9 as stated: with a runtime detected and the lookup of a pid successful, a
\* cgroup naming lxc appends "/" and the container name to the user, a cgroup
\* naming docker replaces the user by the container's name or by "UNKNOWN", a
\* cgroup naming neither leaves the user; comm is unchanged.  A cgroup naming
\* both may be resolved either way.
C9_ResolutionByCgroupAlone ==
    (InRunningProcesses /\ Detected) =>
        \A k \in Resolved :
            LET pid == pid_keys[k]
                cgroup == cg_log[k].info[3]
            IN  /\ pid_map[pid].comm = ps_map[pid].comm
                /\ (NamesLxc(cgroup) /\ ~NamesDocker(cgroup)) =>
                      pid_map[pid].user = ps_map[pid].user \o <<"/">> \o NamedIn(cgroup)
                /\ (NamesDocker(cgroup) /\ ~NamesLxc(cgroup)) =>
                      pid_map[pid].user = DockerUser(cgroup)
                /\ (NamesLxc(cgroup) /\ NamesDocker(cgroup)) =>
                      pid_map[pid].user \in
                          {ps_map[pid].user \o <<"/">> \o NamedIn(cgroup),
                           DockerUser(cgroup)}
                /\ (~NamesLxc(cgroup) /\ ~NamesDocker(cgroup)) =>
                      pid_map[pid].user = ps_map[pid].user

\* C9, amended: with the lookup of a pid successful, a cgroup naming lxc
\* appends "/" and the container name to the user when the lxc runtime was
\* detected; otherwise a cgroup naming docker replaces the user by the
\* container's name or by "UNKNOWN" when the docker runtime was detected;
\* otherwise the user is unchanged; comm is unchanged.
C9_ResolutionByDetectedRuntime ==
    InRunningProcesses =>
        \A k \in Resolved :
            LET pid == pid_keys[k]
                cgroup == cg_log[k].info[3]
            IN  /\ pid_map[pid].comm = ps_map[pid].comm
                /\ pid_map[pid].user =
                      IF Truthy(lxc_version) /\ NamesLxc(cgroup)
                      THEN ps_map[pid].user \o <<"/">> \o NamedIn(cgroup)
                      ELSE IF Truthy(docker_version) /\ NamesDocker(cgroup)
                      THEN DockerUser(cgroup)
                      ELSE ps_map[pid].user

C9_Witness ==
    /\ pc = "step3"
    /\ Len(cg_log) = 2
    /\ ~Truthy(lxc_version)
    /\ Truthy(docker_version)
    /\ Resolved = {1, 2}
    /\ cg_log[1].info[3] = LxcCgroup
    /\ pid_map[pid_keys[1]].user = <<"a", "l">>
    /\ cg_log[2].info[3] = DockerCgroup
    /\ pid_map[pid_keys[2]].user = ContainerName

Rendered == pc = "rendered" /\ exc = NoError /\ with_colors
TextsFrom(n, max) == {IntToStr(t) : t \in n..max}

\* C10 as stated: the temperature is bold red exactly when it is above 50 and
\* the utilization bold green exactly when it is above 30.
C10_EscalatesAboveThreshold ==
    Rendered =>
        /\ out[1].CTemp = BOLD_RED <=> RawTemp \in TextsFrom(TempThreshold + 1, MaxTemp)
        /\ out[1].CUtil = BOLD_GREEN <=> RawUtil \in TextsFrom(UtilThreshold + 1, MaxUtil)

\* C10, amended: with colors enabled, the temperature is bold red exactly when
\* it is 50 or more and red otherwise, and the utilization bold green exactly
\* when it is 30 or more and green otherwise.
C10_EscalatesFromThreshold ==
    Rendered =>
        /\ out[1].CTemp =
              IF RawTemp \in TextsFrom(TempThreshold, MaxTemp) THEN BOLD_RED ELSE RED
        /\ out[1].CUtil =
              IF RawUtil \in TextsFrom(UtilThreshold, MaxUtil) THEN BOLD_GREEN ELSE GREEN

C10_Witness ==
    /\ Rendered
    /\ RawTemp = <<"5", "0">>
    /\ out[1].CTemp = BOLD_RED
    /\ RawUtil = <<"3", "0">>
    /\ out[1].CUtil = BOLD_GREEN
=============================================================================
